---- MODULE Spec2Model ----
(***************************************************************************)
(* Model of rule_engine/parser.py: the two-phase driver ParserBase.parse   *)
(* with its class-level mutex and per-instance bound context, the          *)
(* precedence-driven shift/reduce grammar of Parser and the deferred node  *)
(* protocol of _DeferredAstNode.                                           *)
(***************************************************************************)
EXTENDS Integers, Sequences, FiniteSets, TLC

\* ------------------------------------------------------------------ bounds
NumThreads == 2
NumParsers == 2
NumContexts == 2
MaxCalls == 2
MaxOps == 3

Threads == 1..NumThreads
Parsers == 1..NumParsers
Contexts == 1..NumContexts

\* self.context = None (parser.py:82, parser.py:104)
None == 0
\* threading.Lock() not held by any thread (parser.py:75)
Unlocked == 0

VARIABLES
    mutex,      \* ParserBase.__mutex: the thread holding it, or Unlocked
    context,    \* context[p]: self.context of parser instance p
    pc,         \* pc[t]: where thread t stands inside or outside parse()
    call,       \* call[t]: the arguments of thread t's current parse() call
    deferred,   \* deferred[t]: the contexts the deferred nodes of the call captured
    ncalls,     \* parse() calls started so far, by all threads
    src,        \* the tokens the lexer yields for the text of the call
    pos,        \* the place in src of the lookahead token
    symstack,   \* the parser's stack of grammar symbols
    result,     \* the root deferred node self._parser.parse returned
    frames,     \* phase 2: the constructors that are running, innermost last
    log         \* phase 2: constructor calls and finished nodes, in order

dvars == <<mutex, context, pc, call, deferred, ncalls>>
pvars == <<src, pos, symstack, result, frames, log>>
vars == <<dvars, pvars>>

NoCall == [parser |-> 1, context |-> None]
NoResult == [k |-> "None"]

\* No text is being parsed in detail.
ParserIdle ==
    /\ src = <<>>
    /\ pos = 1
    /\ symstack = <<>>
    /\ result = NoResult
    /\ frames = <<>>
    /\ log = <<>>

Init ==
    /\ mutex = Unlocked
    /\ context = [p \in Parsers |-> None]
    /\ pc = [t \in Threads |-> "idle"]
    /\ call = [t \in Threads |-> NoCall]
    /\ deferred = [t \in Threads |-> {}]
    /\ ncalls = 0
    /\ ParserIdle

\* Outside parse(): never called, or the last call returned an AST, or raised.
Outside(t) == pc[t] \in {"idle", "returned", "raised"}

\* The locked section of parse(): lines 101-104, entered with the mutex held.
InPhase1(t) == pc[t] \in {"bind", "parsing", "unbind", "exit"}

\* parse(text, context) is entered by thread t on parser instance p with
\* context c (line 87). What the text makes phase 1 do is chosen while it runs.
Call(t) ==
    /\ Outside(t)
    /\ ncalls < MaxCalls
    /\ \E p \in Parsers, c \in Contexts :
        call' = [call EXCEPT ![t] = [parser |-> p, context |-> c]]
    /\ pc' = [pc EXCEPT ![t] = "lock"]
    /\ ncalls' = ncalls + 1
    /\ UNCHANGED <<mutex, context, deferred, pvars>>

\* A mutant of Acquire: the with statement does not wait for the mutex.
AcquireNoWait(t) ==
    /\ pc[t] = "lock"
    /\ mutex' = t
    /\ pc' = [pc EXCEPT ![t] = "bind"]
    /\ UNCHANGED <<context, call, deferred, ncalls, pvars>>

\* with self.__mutex: (line 100) blocks until the lock is free, then holds it.
\* __mutex is a class attribute (line 75): one lock for every instance.
Acquire(t) ==
    /\ pc[t] = "lock"
    /\ mutex = Unlocked
    /\ mutex' = t
    /\ pc' = [pc EXCEPT ![t] = "bind"]
    /\ UNCHANGED <<context, call, deferred, ncalls, pvars>>

\* self.context = context (line 101)
Bind(t) ==
    /\ pc[t] = "bind"
    /\ context' = [context EXCEPT ![call[t].parser] = call[t].context]
    /\ pc' = [pc EXCEPT ![t] = "parsing"]
    /\ UNCHANGED <<mutex, call, deferred, ncalls, pvars>>

\* One reduction action p_* run by self._parser.parse (line 103): it creates a
\* _DeferredAstNode whose first argument is self.context, read at that moment
\* (e.g. lines 292, 325, 369).
Reduce(t) ==
    /\ pc[t] = "parsing"
    /\ deferred' = [deferred EXCEPT ![t] = @ \cup {context[call[t].parser]}]
    /\ UNCHANGED <<mutex, context, pc, call, ncalls, pvars>>

\* self._parser.parse returns the root deferred node (line 103), the one
\* p_statement_expr created (line 292).
ParseReturn(t) ==
    /\ pc[t] = "parsing"
    /\ deferred[t] # {}
    /\ pc' = [pc EXCEPT ![t] = "unbind"]
    /\ UNCHANGED <<mutex, context, call, deferred, ncalls, pvars>>

\* A mutant of MutexExit: the lock stays held when the body raised.
MutexExitLeak(holder, raised) == IF raised THEN holder ELSE Unlocked

\* The with statement's exit (line 100): the lock is released whether the body
\* finished or raised.
MutexExit(holder, raised) == Unlocked

\* t_SYMBOL, t_error, p_error or p_expression_float raises RuleSyntaxError
\* inside self._parser.parse (lines 275, 284, 288, 457): the exception leaves
\* the with block, which releases the mutex; line 104 is not run.
ParseRaise(t) ==
    /\ pc[t] = "parsing"
    /\ mutex' = MutexExit(mutex, TRUE)
    /\ pc' = [pc EXCEPT ![t] = "raised"]
    /\ call' = [call EXCEPT ![t] = NoCall]
    /\ deferred' = [deferred EXCEPT ![t] = {}]
    /\ UNCHANGED <<context, ncalls, pvars>>

\* self.context = None (line 104)
Unbind(t) ==
    /\ pc[t] = "unbind"
    /\ context' = [context EXCEPT ![call[t].parser] = None]
    /\ pc' = [pc EXCEPT ![t] = "exit"]
    /\ UNCHANGED <<mutex, call, deferred, ncalls, pvars>>

\* A mutant of Release: phase 2 is entered with the mutex still held.
ReleaseLate(t) ==
    /\ pc[t] = "exit"
    /\ pc' = [pc EXCEPT ![t] = "build"]
    /\ UNCHANGED <<mutex, context, call, deferred, ncalls, pvars>>

\* The end of the with block on the normal path (lines 100-105). Phase 1 of
\* the call is over: its nodes now make up the tree that phase 2 works on.
Release(t) ==
    /\ pc[t] = "exit"
    /\ mutex' = MutexExit(mutex, FALSE)
    /\ pc' = [pc EXCEPT ![t] = "build"]
    /\ deferred' = [deferred EXCEPT ![t] = {}]
    /\ UNCHANGED <<context, call, ncalls, pvars>>

\* return result.build() (line 106): phase 2 returns the AST or a node
\* constructor raises; it works on the deferred tree only.
Build(t) ==
    /\ pc[t] = "build"
    /\ \E o \in {"returned", "raised"} : pc' = [pc EXCEPT ![t] = o]
    /\ call' = [call EXCEPT ![t] = NoCall]
    /\ deferred' = [deferred EXCEPT ![t] = {}]
    /\ UNCHANGED <<mutex, context, ncalls, pvars>>

\* What a thread inside parse() does next.
Step(t) ==
    \/ Acquire(t)
    \/ Bind(t)
    \/ Reduce(t)
    \/ ParseReturn(t)
    \/ ParseRaise(t)
    \/ Unbind(t)
    \/ Release(t)
    \/ Build(t)

Next == \E t \in Threads : Call(t) \/ Step(t)

Spec == Init /\ [][Next]_vars

\* Every thread that is inside parse() keeps running; a waiting thread gets
\* the lock once it stays free.
FairSpec == Init /\ [][Next]_vars /\ \A t \in Threads : WF_vars(Step(t))

\* ------------------------------------------------------------------ tokens

\* A lexer token (ply LexToken): its type and its value, the matched text.
Tok(type, value) == [type |-> type, value |-> value]

\* Parser.reserved_words (lines 140-156), the words the model's texts use.
reserved_words ==
    [w \in {"and", "in", "or", "not"} |->
        CASE w = "and" -> "AND" [] w = "in" -> "IN"
          [] w = "or" -> "OR" [] w = "not" -> "NOT"]

\* The token type the lexer rules give an operator's text: the t_* strings
\* (lines 165-176), t_POW, t_FDIV, t_LT, t_GT, t_EQ_FZS, t_NE_FZS (lines
\* 222-254) and t_SYMBOL with reserved_words (lines 272-277).
TokenType(v) ==
    CASE v = "+" -> "ADD" [] v = "-" -> "SUB" [] v = "%" -> "MOD"
      [] v = "&" -> "BWAND" [] v = "|" -> "BWOR" [] v = "^" -> "BWXOR"
      [] v = "==" -> "EQ" [] v = "!=" -> "NE"
      [] v \in {"*", "**"} -> (IF v = "*" THEN "MUL" ELSE "POW")
      [] v \in {"/", "//"} -> (IF v = "/" THEN "TDIV" ELSE "FDIV")
      [] v \in {"<", "<=", "<<"} ->
            (CASE v = "<" -> "LT" [] v = "<=" -> "LE" [] v = "<<" -> "BWLSH")
      [] v \in {">", ">=", ">>"} ->
            (CASE v = ">" -> "GT" [] v = ">=" -> "GE" [] v = ">>" -> "BWRSH")
      [] v \in {"=~", "=~~"} -> (IF v = "=~" THEN "EQ_FZM" ELSE "EQ_FZS")
      [] v \in {"!~", "!~~"} -> (IF v = "!~" THEN "NE_FZM" ELSE "NE_FZS")
      [] v \in DOMAIN reserved_words -> reserved_words[v]
      [] v \in {"[", "&["} -> "LBRACKET"
      [] v = "]" -> "RBRACKET"
      [] v = ":" -> "COLON"
      [] v = "," -> "COMMA"

\* Parser.op_names (lines 119-139): an operator's text to its operation name.
op_names(v) ==
    CASE v = "+" -> "ADD" [] v = "-" -> "SUB"
      [] v = "**" -> "POW" [] v = "*" -> "MUL"
      [] v = "/" -> "TDIV" [] v = "//" -> "FDIV" [] v = "%" -> "MOD"
      [] v = "&" -> "BWAND" [] v = "|" -> "BWOR" [] v = "^" -> "BWXOR"
      [] v = "<<" -> "BWLSH" [] v = ">>" -> "BWRSH"
      [] v = "==" -> "EQ" [] v = "=~" -> "EQ_FZM" [] v = "=~~" -> "EQ_FZS"
      [] v = "!=" -> "NE" [] v = "!~" -> "NE_FZM" [] v = "!~~" -> "NE_FZS"
      [] v = ">" -> "GT" [] v = ">=" -> "GE"
      [] v = "<" -> "LT" [] v = "<=" -> "LE"
      [] v = "and" -> "AND" [] v = "or" -> "OR" [] v = "not" -> "NOT"
      [] v = "in" -> "IN"

\* The texts of the binary operators of the grammar (lines 315-413).
BinaryOpTexts ==
    {"+", "-", "**", "*", "/", "//", "%", "&", "|", "^", "<<", ">>",
     "==", "!=", ">", ">=", "<", "<=", "=~", "=~~", "!~", "!~~",
     "and", "or", "in"}

BinaryOpTypes == {TokenType(v) : v \in BinaryOpTexts}

\* A mutant of precedence: the comparison group is left-associative.
precedenceComparisonsLeft ==
    << <<"left", {"OR"}>>,
       <<"left", {"AND"}>>,
       <<"right", {"NOT"}>>,
       <<"left", {"BWOR"}>>,
       <<"left", {"BWXOR"}>>,
       <<"left", {"BWAND"}>>,
       <<"right", {"QMARK", "COLON"}>>,
       <<"left", {"EQ", "NE", "EQ_FZM", "EQ_FZS", "NE_FZM", "NE_FZS",
                  "GE", "GT", "LE", "LT", "IN"}>>,
       <<"left", {"ADD", "SUB"}>>,
       <<"left", {"BWLSH", "BWRSH"}>>,
       <<"left", {"MUL", "TDIV", "FDIV", "MOD"}>>,
       <<"left", {"POW"}>>,
       <<"right", {"UMINUS"}>>,
       <<"left", {"ATTR", "ATTR_SAFE"}>> >>

\* A mutant of precedence: POW is right-associative and binds below MUL.
precedencePowMisplaced ==
    << <<"left", {"OR"}>>,
       <<"left", {"AND"}>>,
       <<"right", {"NOT"}>>,
       <<"left", {"BWOR"}>>,
       <<"left", {"BWXOR"}>>,
       <<"left", {"BWAND"}>>,
       <<"right", {"QMARK", "COLON"}>>,
       <<"nonassoc", {"EQ", "NE", "EQ_FZM", "EQ_FZS", "NE_FZM", "NE_FZS",
                      "GE", "GT", "LE", "LT", "IN"}>>,
       <<"left", {"ADD", "SUB"}>>,
       <<"left", {"BWLSH", "BWRSH"}>>,
       <<"right", {"POW"}>>,
       <<"left", {"MUL", "TDIV", "FDIV", "MOD"}>>,
       <<"right", {"UMINUS"}>>,
       <<"left", {"ATTR", "ATTR_SAFE"}>> >>

\* Parser.precedence (lines 190-205), lowest binding power first.
precedence ==
    << <<"left", {"OR"}>>,
       <<"left", {"AND"}>>,
       <<"right", {"NOT"}>>,
       <<"left", {"BWOR"}>>,
       <<"left", {"BWXOR"}>>,
       <<"left", {"BWAND"}>>,
       <<"right", {"QMARK", "COLON"}>>,
       <<"nonassoc", {"EQ", "NE", "EQ_FZM", "EQ_FZS", "NE_FZM", "NE_FZS",
                      "GE", "GT", "LE", "LT", "IN"}>>,
       <<"left", {"ADD", "SUB"}>>,
       <<"left", {"BWLSH", "BWRSH"}>>,
       <<"left", {"MUL", "TDIV", "FDIV", "MOD"}>>,
       <<"left", {"POW"}>>,
       <<"right", {"UMINUS"}>>,
       <<"left", {"ATTR", "ATTR_SAFE"}>> >>

\* The names the precedence table lists.
PrecedenceNames == UNION {precedence[i][2] : i \in 1..Len(precedence)}

\* The level of each name of the table, 1 being the lowest.
LevelOf ==
    [name \in PrecedenceNames |->
        CHOOSE i \in 1..Len(precedence) : name \in precedence[i][2]]

\* The level yacc gives a name; a name the table does not list has level 0.
Level(name) == IF name \in PrecedenceNames THEN LevelOf[name] ELSE 0

\* The associativity of a name of the table; yacc's default is "right".
Assoc(name) ==
    IF name \in PrecedenceNames THEN precedence[LevelOf[name]][1] ELSE "right"

\* ------------------------------------------------------------------ deferred nodes

\* The values a reduction action puts into a deferred node's args.
CtxArg(c) == [k |-> "context", c |-> c]
StrArg(v) == [k |-> "str", s |-> v]
FloatArg(n) == [k |-> "float", n |-> n]
NoneArg == [k |-> "None"]
TupleArg(items) == [k |-> "tuple", items |-> items]

\* _DeferredAstNode.__init__ (lines 50-56): the recipe, nothing is built.
\* kwargs is a set of <<name, value>> pairs, method defaults to "build".
DeferredAstNode(cls, args, kwargs) ==
    [k |-> "node", cls |-> cls, args |-> args, kwargs |-> kwargs,
     method |-> "build"]

\* A mutant of IsSafe: the test is made against the plain bracket.
IsSafePlain(lbracket) == lbracket = "["

\* lbracket == '&[' (lines 551 and 561): the safe flag of the bracket token.
IsSafe(lbracket) == lbracket = "&["

\* Python's repr of a bool, as a keyword argument's value.
PyBool(b) == IF b THEN "True" ELSE "False"

\* literal_eval and float() on the FLOAT texts the model uses (lines 459-462).
literal_eval(str_val) ==
    CASE str_val = "1" -> 1 [] str_val = "2" -> 2 [] str_val = "3" -> 3
      [] str_val = "4" -> 4 [] str_val = "5" -> 5 [] str_val = "07" -> 7

\* re.match('^0[0-9]', str_val) (line 456) on the FLOAT texts the model uses.
LeadingZero(str_val) == str_val \in {"07"}

\* ------------------------------------------------------------------ reduction actions
\* Each takes p, the values of the production's right-hand side (p[1] is the
\* first symbol, as in ply), and c, self.context at the time it runs.

\* statement : expression (lines 290-292)
p_statement_expr(p, c) ==
    DeferredAstNode("Statement", <<CtxArg(c), p[1]>>, {})

\* expression : object (lines 302-306)
p_expression_object(p, c) == p[1]

\* expression : expression MOD|MUL|FDIV|TDIV|POW expression (lines 315-325)
p_expression_arithmetic(p, c) ==
    DeferredAstNode("ArithmeticExpression",
        <<CtxArg(c), StrArg(op_names(p[2])), p[1], p[3]>>, {})

\* expression : expression ADD expression (lines 327-333)
p_expression_add(p, c) ==
    DeferredAstNode("AddExpression",
        <<CtxArg(c), StrArg(op_names(p[2])), p[1], p[3]>>, {})

\* expression : expression SUB expression (lines 335-341)
p_expression_sub(p, c) ==
    DeferredAstNode("SubtractExpression",
        <<CtxArg(c), StrArg(op_names(p[2])), p[1], p[3]>>, {})

\* expression : expression BWAND|BWOR|BWXOR expression (lines 343-351)
p_expression_bitwise(p, c) ==
    DeferredAstNode("BitwiseExpression",
        <<CtxArg(c), StrArg(op_names(p[2])), p[1], p[3]>>, {})

\* expression : expression BWLSH|BWRSH expression (lines 353-360)
p_expression_bitwise_shift(p, c) ==
    DeferredAstNode("BitwiseShiftExpression",
        <<CtxArg(c), StrArg(op_names(p[2])), p[1], p[3]>>, {})

\* A mutant of p_expression_contains: "not in" stores the member before
\* the container.
p_expression_containsSwapped(p, c) ==
    IF Len(p) + 1 = 4
    THEN DeferredAstNode("ContainsExpression", <<CtxArg(c), p[3], p[1]>>, {})
    ELSE DeferredAstNode("UnaryExpression",
            <<CtxArg(c), StrArg("NOT"),
              DeferredAstNode("ContainsExpression",
                  <<CtxArg(c), p[1], p[4]>>, {})>>, {})

\* expression : expression IN expression | expression NOT IN expression
\* (lines 362-373): the container comes before the member in args.
p_expression_contains(p, c) ==
    IF Len(p) + 1 = 4
    THEN DeferredAstNode("ContainsExpression", <<CtxArg(c), p[3], p[1]>>, {})
    ELSE DeferredAstNode("UnaryExpression",
            <<CtxArg(c), StrArg("NOT"),
              DeferredAstNode("ContainsExpression",
                  <<CtxArg(c), p[4], p[1]>>, {})>>, {})

\* expression : expression EQ|NE expression (lines 375-382)
p_expression_comparison(p, c) ==
    DeferredAstNode("ComparisonExpression",
        <<CtxArg(c), StrArg(op_names(p[2])), p[1], p[3]>>, {})

\* expression : expression GT|GE|LT|LE expression (lines 384-393)
p_expression_arithmetic_comparison(p, c) ==
    DeferredAstNode("ArithmeticComparisonExpression",
        <<CtxArg(c), StrArg(op_names(p[2])), p[1], p[3]>>, {})

\* expression : expression EQ_FZM|EQ_FZS|NE_FZM|NE_FZS expression (lines 395-404)
p_expression_fuzzy_comparison(p, c) ==
    DeferredAstNode("FuzzyComparisonExpression",
        <<CtxArg(c), StrArg(op_names(p[2])), p[1], p[3]>>, {})

\* expression : expression AND|OR expression (lines 406-413)
p_expression_logic(p, c) ==
    DeferredAstNode("LogicExpression",
        <<CtxArg(c), StrArg(op_names(p[2])), p[1], p[3]>>, {})

\* expression : NOT expression (lines 419-421)
p_expression_negate(p, c) ==
    DeferredAstNode("UnaryExpression", <<CtxArg(c), StrArg("NOT"), p[2]>>, {})

\* object : SYMBOL (lines 423-430), for names without the $ prefix.
p_expression_symbol(p, c) ==
    DeferredAstNode("SymbolExpression", <<CtxArg(c), StrArg(p[1])>>,
        {<<"scope", "None">>})

\* expression : SUB expression %prec UMINUS (lines 432-435)
p_expression_uminus(p, c) ==
    DeferredAstNode("UnaryExpression",
        <<CtxArg(c), StrArg("UMINUS"), p[2]>>, {})

\* expression : FLOAT (lines 453-462), when the literal is accepted.
p_expression_float(p, c) ==
    DeferredAstNode("FloatExpression",
        <<CtxArg(c), FloatArg(literal_eval(p[1]))>>, {})

\* object : LBRACKET RBRACKET | LBRACKET ary_members RBRACKET
\*        | LBRACKET ary_members COMMA RBRACKET (lines 488-497): p[1], the
\* bracket token, is not looked at.
p_expression_array(p, c) ==
    IF Len(p) + 1 < 4
    THEN DeferredAstNode("ArrayExpression", <<CtxArg(c), TupleArg(<<>>)>>, {})
    ELSE DeferredAstNode("ArrayExpression", <<CtxArg(c), TupleArg(p[2])>>, {})

\* ary_members : expression | ary_members COMMA expression (lines 509-520);
\* the value is the deque of members.
p_expression_array_members(p, c) ==
    IF Len(p) + 1 = 2 THEN <<p[1]>> ELSE Append(p[1], p[3])

\* object : object LBRACKET expression RBRACKET (lines 546-551)
p_expression_getitem(p, c) ==
    DeferredAstNode("GetItemExpression", <<CtxArg(c), p[1], p[3]>>,
        {<<"safe", PyBool(IsSafe(p[2]))>>})

\* The place of ':' in p[1:] (line 562), counted from 0 as Python does; only
\* tokens are strings in a right-hand side.
ColonIndex(types) == (CHOOSE i \in 1..Len(types) : types[i] = "COLON") - 1

\* object : object LBRACKET [expression] COLON [expression] RBRACKET
\* (lines 553-573); types are the grammar symbols of the right-hand side.
p_expression_getslice(p, types, c) ==
    LET colon_index == ColonIndex(types)
        len == Len(p) + 1
        start == IF colon_index = 3 THEN p[3] ELSE NoneArg
        stop == CASE colon_index = 2 /\ len = 5 -> NoneArg
                  [] colon_index = 2 /\ len = 6 -> p[4]
                  [] colon_index = 3 /\ len = 6 -> NoneArg
                  [] colon_index = 3 /\ len = 7 -> p[5]
    IN  DeferredAstNode("GetSliceExpression",
            <<CtxArg(c), p[1], start, stop>>,
            {<<"safe", PyBool(IsSafe(p[2]))>>})

\* ------------------------------------------------------------------ the LR parser
\* self._parser = yacc.yacc(module=self) (line 85) builds the LALR tables of
\* the productions in the p_* docstrings, resolving their shift/reduce
\* conflicts with Parser.precedence; self._parser.parse (line 103) runs them.
\* The stack holds grammar symbols [type, value], as ply's symstack does.

\* The type of the k-th symbol from the top of the stack.
TypeAt(stack, k) ==
    IF k <= Len(stack) THEN stack[Len(stack) - k + 1].type ELSE "$bottom"

\* The tokens that can start an expression.
ExprStart == {"SYMBOL", "FLOAT", "NOT", "SUB", "LBRACKET"}

\* The tokens that can continue an expression: a binary operator, or the NOT
\* of NOT IN.
ExprContinue == BinaryOpTypes \cup {"NOT"}

\* The tokens that can end an expression.
ExprEnd == {"RBRACKET", "COLON", "COMMA", "$end"}

\* The reduction action whose docstring holds expression <op> expression.
RuleOfBinary(op) ==
    CASE op \in {"MOD", "MUL", "FDIV", "TDIV", "POW"} -> "p_expression_arithmetic"
      [] op = "ADD" -> "p_expression_add"
      [] op = "SUB" -> "p_expression_sub"
      [] op \in {"BWAND", "BWOR", "BWXOR"} -> "p_expression_bitwise"
      [] op \in {"BWLSH", "BWRSH"} -> "p_expression_bitwise_shift"
      [] op = "IN" -> "p_expression_contains"
      [] op \in {"EQ", "NE"} -> "p_expression_comparison"
      [] op \in {"GT", "GE", "LT", "LE"} -> "p_expression_arithmetic_comparison"
      [] op \in {"EQ_FZM", "EQ_FZS", "NE_FZM", "NE_FZS"} ->
            "p_expression_fuzzy_comparison"
      [] op \in {"AND", "OR"} -> "p_expression_logic"

NoRule == [rule |-> "none", n |-> 0, prec |-> "none"]

\* The operator production that is complete when an expression is on top of
\* the stack, with the number of symbols of its right-hand side and the name
\* whose precedence it has: its rightmost terminal, or its %prec (line 433).
CompletedRule(stack) ==
    LET t2 == TypeAt(stack, 2)
        t3 == TypeAt(stack, 3)
        t4 == TypeAt(stack, 4)
    IN  CASE t2 = "IN" /\ t3 = "NOT" /\ t4 = "expression" ->
                [rule |-> "p_expression_contains", n |-> 4, prec |-> "IN"]
          [] t2 \in BinaryOpTypes /\ t3 = "expression" ->
                [rule |-> RuleOfBinary(t2), n |-> 3, prec |-> t2]
          [] t2 = "NOT" /\ t3 # "expression" ->
                [rule |-> "p_expression_negate", n |-> 2, prec |-> "NOT"]
          [] t2 = "SUB" /\ t3 # "expression" ->
                [rule |-> "p_expression_uminus", n |-> 2, prec |-> "UMINUS"]
          [] OTHER -> NoRule

\* yacc's resolution of a shift/reduce conflict between a complete production
\* with precedence name ruleprec and the lookahead token la.
Resolve(ruleprec, la) ==
    LET rlevel == Level(ruleprec)
        slevel == Level(la)
        rprec == Assoc(ruleprec)
    IN  IF slevel < rlevel \/ (slevel = rlevel /\ rprec = "left") THEN "reduce"
        ELSE IF slevel = rlevel /\ rprec = "nonassoc" THEN "error"
        ELSE "shift"

Shift == [kind |-> "shift"]
Error == [kind |-> "error"]
Accept == [kind |-> "accept"]
ReduceBy(rule, n) == [kind |-> "reduce", rule |-> rule, n |-> n]

\* The table entry for an expression on top of the stack.
ActionOnExpression(stack, la) ==
    LET done == CompletedRule(stack)
        t2 == TypeAt(stack, 2)
        t3 == TypeAt(stack, 3)
    IN  IF done.rule # "none"
        THEN IF la \in ExprContinue
             THEN CASE Resolve(done.prec, la) = "reduce" -> ReduceBy(done.rule, done.n)
                    [] Resolve(done.prec, la) = "shift" -> Shift
                    [] OTHER -> Error
             ELSE IF la \in ExprEnd THEN ReduceBy(done.rule, done.n) ELSE Error
        ELSE IF la \in ExprContinue THEN Shift
        ELSE CASE t2 = "$bottom" ->
                    IF la = "$end" THEN ReduceBy("p_statement_expr", 1) ELSE Error
               [] t2 = "LBRACKET" /\ t3 = "object" ->
                    IF la \in {"RBRACKET", "COLON"} THEN Shift ELSE Error
               [] t2 = "LBRACKET" /\ t3 # "object" ->
                    IF la \in {"COMMA", "RBRACKET"}
                    THEN ReduceBy("p_expression_array_members", 1) ELSE Error
               [] t2 = "COLON" -> IF la = "RBRACKET" THEN Shift ELSE Error
               [] t2 = "COMMA" ->
                    IF la \in {"COMMA", "RBRACKET"}
                    THEN ReduceBy("p_expression_array_members", 3) ELSE Error
               [] OTHER -> Error

\* The production a closing bracket completes (lines 488-497, 546-573).
ActionOnRBracket(stack) ==
    LET t2 == TypeAt(stack, 2)
        t3 == TypeAt(stack, 3)
        t4 == TypeAt(stack, 4)
        t5 == TypeAt(stack, 5)
    IN  CASE t2 = "LBRACKET" -> ReduceBy("p_expression_array", 2)
          [] t2 = "ary_members" -> ReduceBy("p_expression_array", 3)
          [] t2 = "COMMA" -> ReduceBy("p_expression_array", 4)
          [] t2 = "expression" /\ t3 = "LBRACKET" -> ReduceBy("p_expression_getitem", 4)
          [] t2 = "COLON" /\ t3 = "LBRACKET" -> ReduceBy("p_expression_getslice", 4)
          [] t2 = "expression" /\ t3 = "COLON" /\ t4 = "LBRACKET" ->
                ReduceBy("p_expression_getslice", 5)
          [] t2 = "COLON" /\ t3 = "expression" -> ReduceBy("p_expression_getslice", 5)
          [] t2 = "expression" /\ t3 = "COLON" /\ t4 = "expression" ->
                ReduceBy("p_expression_getslice", 6)

\* The parser's move for a stack and a lookahead token type ("$end" when the
\* lexer has no more tokens); "error" is the call of p_error (line 287).
ParserAction(stack, la) ==
    LET t1 == TypeAt(stack, 1)
        t2 == TypeAt(stack, 2)
    IN  CASE t1 = "statement" -> IF la = "$end" THEN Accept ELSE Error
          [] t1 = "expression" -> ActionOnExpression(stack, la)
          [] t1 = "object" ->
                IF la = "LBRACKET" THEN Shift
                ELSE IF la \in ExprContinue \cup ExprEnd
                THEN ReduceBy("p_expression_object", 1) ELSE Error
          [] t1 = "SYMBOL" -> ReduceBy("p_expression_symbol", 1)
          [] t1 = "FLOAT" -> ReduceBy("p_expression_float", 1)
          [] t1 = "RBRACKET" -> ActionOnRBracket(stack)
          [] t1 = "ary_members" ->
                IF la \in {"COMMA", "RBRACKET"} THEN Shift ELSE Error
          [] t1 = "COMMA" ->
                IF la \in ExprStart \cup {"RBRACKET"} THEN Shift ELSE Error
          [] t1 = "LBRACKET" /\ t2 = "object" ->
                IF la \in ExprStart \cup {"COLON"} THEN Shift ELSE Error
          [] t1 = "LBRACKET" /\ t2 # "object" ->
                IF la \in ExprStart \cup {"RBRACKET"} THEN Shift ELSE Error
          [] t1 = "COLON" ->
                IF la \in ExprStart \cup {"RBRACKET"} THEN Shift ELSE Error
          [] t1 = "NOT" /\ t2 = "expression" -> IF la = "IN" THEN Shift ELSE Error
          [] OTHER -> IF la \in ExprStart THEN Shift ELSE Error

\* The left-hand side of a reduction action's production.
LeftSide(rule) ==
    CASE rule = "p_statement_expr" -> "statement"
      [] rule \in {"p_expression_symbol", "p_expression_array",
                   "p_expression_getitem", "p_expression_getslice"} -> "object"
      [] rule = "p_expression_array_members" -> "ary_members"
      [] OTHER -> "expression"

\* Whether the reduction action raises RuleSyntaxError (line 457).
ActionRaises(rule, p) == rule = "p_expression_float" /\ LeadingZero(p[1])

\* The value the reduction action leaves in p[0].
ActionValue(rule, p, types, c) ==
    CASE rule = "p_statement_expr" -> p_statement_expr(p, c)
      [] rule = "p_expression_object" -> p_expression_object(p, c)
      [] rule = "p_expression_arithmetic" -> p_expression_arithmetic(p, c)
      [] rule = "p_expression_add" -> p_expression_add(p, c)
      [] rule = "p_expression_sub" -> p_expression_sub(p, c)
      [] rule = "p_expression_bitwise" -> p_expression_bitwise(p, c)
      [] rule = "p_expression_bitwise_shift" -> p_expression_bitwise_shift(p, c)
      [] rule = "p_expression_contains" -> p_expression_contains(p, c)
      [] rule = "p_expression_comparison" -> p_expression_comparison(p, c)
      [] rule = "p_expression_arithmetic_comparison" ->
            p_expression_arithmetic_comparison(p, c)
      [] rule = "p_expression_fuzzy_comparison" ->
            p_expression_fuzzy_comparison(p, c)
      [] rule = "p_expression_logic" -> p_expression_logic(p, c)
      [] rule = "p_expression_negate" -> p_expression_negate(p, c)
      [] rule = "p_expression_symbol" -> p_expression_symbol(p, c)
      [] rule = "p_expression_uminus" -> p_expression_uminus(p, c)
      [] rule = "p_expression_float" -> p_expression_float(p, c)
      [] rule = "p_expression_array" -> p_expression_array(p, c)
      [] rule = "p_expression_array_members" -> p_expression_array_members(p, c)
      [] rule = "p_expression_getitem" -> p_expression_getitem(p, c)
      [] rule = "p_expression_getslice" -> p_expression_getslice(p, types, c)

\* The deferred nodes the reduction action creates.
NodesCreated(rule, n) ==
    CASE rule \in {"p_expression_object", "p_expression_array_members"} -> 0
      [] rule = "p_expression_contains" /\ n = 4 -> 2
      [] OTHER -> 1

\* ------------------------------------------------------------------ the texts parsed
\* A text is given as the tokens the lexer yields for it.

SymbolNames == <<"a", "b", "c", "d", "e">>
FloatTexts == <<"1", "2", "3", "4", "5">>
AtomKinds == {"SYMBOL", "FLOAT"}

\* The i-th operand of a text: a name (t_SYMBOL) or a number (t_FLOAT).
Atom(kind, i) ==
    IF kind = "SYMBOL" THEN Tok("SYMBOL", SymbolNames[i])
    ELSE Tok("FLOAT", FloatTexts[i])

\* A binary operator as written: one token, or the two of "not in".
OpChoices == BinaryOpTexts \cup {"not in"}
OpToks(o) ==
    IF o = "not in" THEN <<Tok(TokenType("not"), "not"), Tok(TokenType("in"), "in")>>
    ELSE <<Tok(TokenType(o), o)>>

RECURSIVE ChainFrom(_, _, _)
ChainFrom(kind, ops, i) ==
    IF i > Len(ops) THEN <<>>
    ELSE OpToks(ops[i]) \o <<Atom(kind, i + 1)>> \o ChainFrom(kind, ops, i + 1)

\* [not | -] x1 op1 x2 op2 x3 ...: an unparenthesized chain of operands.
Chain(prefix, kind, ops) ==
    (IF prefix = "" THEN <<>> ELSE <<Tok(TokenType(prefix), prefix)>>)
        \o <<Atom(kind, 1)>> \o ChainFrom(kind, ops, 1)

\* One operator of each level of Parser.precedence that has binary operators
\* ("<" and "in" share the nonassoc level), and "not in".
LevelOps == {"or", "|", "<", "in", "+", "**", "not in"}

\* The operators of a chain: none, one, any two, or up to MaxOps drawn from
\* LevelOps.
ChainOps ==
    {<<>>} \cup {<<o>> : o \in OpChoices}
        \cup {<<o1, o2>> : o1, o2 \in OpChoices}
        \cup UNION {[1..n -> LevelOps] : n \in 0..MaxOps}

\* x1 op1 x2 op2 x3 ... over names and over numbers, and the same chains
\* over names after a leading "not".
Chains ==
    {Chain("", kind, ops) : kind \in AtomKinds, ops \in ChainOps}
        \cup {Chain("not", "SYMBOL", ops) : ops \in ChainOps}

\* What stands between an opening and a closing bracket.
Insides(kind) ==
    LET x == Atom(kind, 2)
        y == Atom(kind, 3)
        colon == Tok(TokenType(":"), ":")
        comma == Tok(TokenType(","), ",")
    IN  {<<>>, <<x>>, <<x, comma>>, <<x, comma, y>>, <<x, comma, y, comma>>,
         <<colon>>, <<colon, y>>, <<x, colon>>, <<x, colon, y>>}

\* What stands before the opening bracket: an object (the bracket indexes or
\* slices it), nothing or an operator (the bracket opens an array literal),
\* or a number, which is no object.
Befores ==
    {<<>>, <<Atom("SYMBOL", 1)>>, <<Atom("FLOAT", 1)>>,
     <<Atom("SYMBOL", 1), Tok(TokenType("+"), "+")>>}

\* t_LBRACKET (line 178) gives the token the value '&[' only where a non-space
\* character precedes the '&', so never as the first token of a text.
Brackets ==
    {before \o <<Tok(TokenType(lb), lb)>> \o inside \o <<Tok(TokenType("]"), "]")>> :
        before \in Befores,
        lb \in {"[", "&["},
        inside \in UNION {Insides(kind) : kind \in AtomKinds}}

WellLexed(text) == text = <<>> \/ text[1].value # "&["

\* A FLOAT token with a leading zero, an empty text, unary minus.
Others ==
    {<<Tok("FLOAT", "07")>>, <<>>}
        \cup {Chain("-", kind, ops) :
                kind \in AtomKinds, ops \in {<<>>, <<"**">>, <<"-">>, <<"in">>}}

Texts == {text \in Chains \cup Brackets \cup Others : WellLexed(text)}

\* ------------------------------------------------------------------ one call in detail
\* Thread Caller is inside parse(text, context) on parser instance ThatParser
\* and holds the mutex; it runs phase 1 token by token, then phase 2.

Caller == CHOOSE t \in Threads : TRUE
ThatParser == CHOOSE p \in Parsers : TRUE
ThatContext == CHOOSE c \in Contexts : TRUE

ParseInit ==
    /\ mutex = Caller
    /\ context = [p \in Parsers |-> IF p = ThatParser THEN ThatContext ELSE None]
    /\ pc = [t \in Threads |-> IF t = Caller THEN "parsing" ELSE "idle"]
    /\ call = [t \in Threads |->
                IF t = Caller THEN [parser |-> ThatParser, context |-> ThatContext]
                ELSE NoCall]
    /\ deferred = [t \in Threads |-> {}]
    /\ ncalls = 1
    /\ src \in Texts
    /\ pos = 1
    /\ symstack = <<>>
    /\ result = NoResult
    /\ frames = <<>>
    /\ log = <<>>

\* The type of the lookahead token.
Lookahead == IF pos <= Len(src) THEN src[pos].type ELSE "$end"

\* The parser shifts the lookahead token.
PShift ==
    /\ pc[Caller] = "parsing"
    /\ ParserAction(symstack, Lookahead).kind = "shift"
    /\ symstack' = Append(symstack, src[pos])
    /\ pos' = pos + 1
    /\ UNCHANGED <<dvars, src, result, frames, log>>

\* The values and the types of the n topmost symbols, bottom first: p[1:]
\* of the reduction action.
TopValues(stack, n) == [i \in 1..n |-> stack[Len(stack) - n + i].value]
TopTypes(stack, n) == [i \in 1..n |-> stack[Len(stack) - n + i].type]

\* The stack after the reduction act, whose action ran with self.context = c.
Reduced(stack, act, c) ==
    Append(SubSeq(stack, 1, Len(stack) - act.n),
        [type |-> LeftSide(act.rule),
         value |-> ActionValue(act.rule, TopValues(stack, act.n),
                        TopTypes(stack, act.n), c)])

\* The parser reduces by a production and runs its action, which reads
\* self.context for the node it creates.
PReduce ==
    /\ pc[Caller] = "parsing"
    /\ LET act == ParserAction(symstack, Lookahead)
           c == context[call[Caller].parser]
       IN  /\ act.kind = "reduce"
           /\ ~ActionRaises(act.rule, TopValues(symstack, act.n))
           /\ symstack' = Reduced(symstack, act, c)
           /\ deferred' = [deferred EXCEPT ![Caller] =
                    IF NodesCreated(act.rule, act.n) > 0 THEN @ \cup {c} ELSE @]
    /\ UNCHANGED <<mutex, context, pc, call, ncalls, src, pos, result, frames, log>>

\* p_error (line 288) or a reduction action (line 457) raises: the exception
\* leaves the with block, the mutex is released, line 104 is not run.
PRaise ==
    /\ pc[Caller] = "parsing"
    /\ LET act == ParserAction(symstack, Lookahead)
       IN  \/ act.kind = "error"
           \/ /\ act.kind = "reduce"
              /\ ActionRaises(act.rule, TopValues(symstack, act.n))
    /\ mutex' = MutexExit(mutex, TRUE)
    /\ pc' = [pc EXCEPT ![Caller] = "raised"]
    /\ symstack' = <<>>
    /\ UNCHANGED <<context, call, deferred, ncalls, src, pos, result, frames, log>>

\* The parser accepts: result is the statement's node (line 103); then
\* self.context = None (line 104) and the with block ends.
PAccept ==
    /\ pc[Caller] = "parsing"
    /\ ParserAction(symstack, Lookahead).kind = "accept"
    /\ result' = symstack[1].value
    /\ symstack' = <<>>
    /\ context' = [context EXCEPT ![call[Caller].parser] = None]
    /\ mutex' = MutexExit(mutex, FALSE)
    /\ pc' = [pc EXCEPT ![Caller] = "build"]
    /\ UNCHANGED <<call, deferred, ncalls, src, pos, frames, log>>

\* self._parser.parse(text) as a function (line 103): the root deferred node,
\* or NoResult when p_error or a reduction action raises.
RECURSIVE RunParser(_, _, _, _)
RunParser(stack, text, i, c) ==
    LET la == IF i <= Len(text) THEN text[i].type ELSE "$end"
        act == ParserAction(stack, la)
    IN  CASE act.kind = "shift" -> RunParser(Append(stack, text[i]), text, i + 1, c)
          [] act.kind = "reduce" ->
                IF ActionRaises(act.rule, TopValues(stack, act.n)) THEN NoResult
                ELSE RunParser(Reduced(stack, act, c), text, i, c)
          [] act.kind = "accept" -> stack[1].value
          [] OTHER -> NoResult

\* ------------------------------------------------------------------ phase 2

\* The deferred nodes among a node's args, a tuple's members included, in
\* the order of the args.
RECURSIVE ChildrenOf(_)
ChildrenOf(args) ==
    IF args = <<>> THEN <<>>
    ELSE LET first == args[1]
             here == CASE first.k = "node" -> <<first>>
                       [] first.k = "tuple" -> first.items
                       [] OTHER -> <<>>
         IN  here \o ChildrenOf(Tail(args))

\* The node a path leads to: a path is the sequence of child indexes from
\* the root.
RECURSIVE NodeAt(_, _)
NodeAt(node, path) ==
    IF path = <<>> THEN node
    ELSE NodeAt(ChildrenOf(node.args)[path[1]], Tail(path))

\* The paths of all the deferred nodes of a tree.
RECURSIVE PathsOf(_)
PathsOf(node) ==
    {<<>>} \cup UNION {{<<i>> \o q : q \in PathsOf(ChildrenOf(node.args)[i])} :
                        i \in 1..Len(ChildrenOf(node.args))}

\* A mutant of ConstructorArgs: the last positional argument is not passed.
ConstructorArgsShort(node) == SubSeq(node.args, 1, Len(node.args) - 1)

\* _DeferredAstNode.build (lines 58-60): constructor(*self.args, **self.kwargs),
\* the args exactly as the reduction action stored them.
ConstructorArgs(node) == node.args

\* build() is called on the deferred node at path: the constructor
\* getattr(self.cls, self.method) is called at once (lines 59-60).
DeferredBuild(node, path) ==
    /\ log' = Append(log,
            [ev |-> "constructor", path |-> path, method |-> node.method])
    /\ frames' = Append(frames,
            [path |-> path, received |-> ConstructorArgs(node), next |-> 1])

\* return result.build() (line 106)
BuildRoot ==
    /\ pc[Caller] = "build"
    /\ frames = <<>> /\ log = <<>>
    /\ DeferredBuild(result, <<>>)
    /\ UNCHANGED <<dvars, src, pos, symstack, result>>

\* The running constructor (ASTNodeBase.build of rule_engine/ast.py) calls
\* build() on the next deferred node among the arguments it received.
BuildChild ==
    /\ pc[Caller] = "build"
    /\ frames # <<>>
    /\ LET top == frames[Len(frames)]
           kids == ChildrenOf(top.received)
       IN  /\ top.next <= Len(kids)
           /\ DeferredBuild(kids[top.next], top.path \o <<top.next>>)
    /\ UNCHANGED <<dvars, src, pos, symstack, result>>

\* The running constructor has built all the deferred nodes it received: it
\* makes its own node and returns it; the root's return ends parse().
BuildFinish ==
    /\ pc[Caller] = "build"
    /\ frames # <<>>
    /\ LET top == frames[Len(frames)]
           rest == SubSeq(frames, 1, Len(frames) - 1)
       IN  /\ top.next > Len(ChildrenOf(top.received))
           /\ log' = Append(log, [ev |-> "node", path |-> top.path])
           /\ frames' = IF rest = <<>> THEN <<>>
                        ELSE [rest EXCEPT ![Len(rest)].next = @ + 1]
           /\ pc' = IF rest = <<>> THEN [pc EXCEPT ![Caller] = "returned"] ELSE pc
    /\ UNCHANGED <<mutex, context, call, deferred, ncalls, src, pos, symstack, result>>

ParseNext ==
    \/ PShift
    \/ PReduce
    \/ PRaise
    \/ PAccept
    \/ BuildRoot
    \/ BuildChild
    \/ BuildFinish

ParseSpec == ParseInit /\ [][ParseNext]_vars

\* ------------------------------------------------------------------ claims on the driver

\* C1: phase 1 (bind context, lex, reduce) of two parse() calls on the same
\* parser instance never overlaps, and every deferred node a call has created
\* carries the context passed to that call.
C1_Phase1ExclusiveAndOwnContext ==
    /\ \A t, u \in Threads :
        (t # u /\ InPhase1(t) /\ InPhase1(u)) => call[t].parser # call[u].parser
    /\ \A t \in Threads : deferred[t] \subseteq {call[t].context}

\* Two calls on one instance with different contexts: one has created a
\* deferred node, the other waits for the lock.
C1_Witness ==
    \E t, u \in Threads :
        /\ pc[t] = "parsing" /\ deferred[t] # {}
        /\ pc[u] = "lock"
        /\ call[u].parser = call[t].parser
        /\ call[u].context # call[t].context

\* C2: a parse() call on one instance is never kept waiting at the lock by a
\* call in progress on a different instance.
C2_NeverBlockedByOtherInstance ==
    \A t, u \in Threads :
        (pc[t] = "lock" /\ mutex = u) => call[u].parser = call[t].parser

\* C3: a call in phase 2 does not hold the lock, and the step that runs
\* phase 2 leaves the lock and every instance's bound context as they are.
C3_Phase2OutsideLock ==
    /\ [](\A t \in Threads : pc[t] = "build" => mutex # t)
    /\ [][\A t \in Threads : (pc[t] = "build" /\ pc'[t] # "build")
            => (mutex' = mutex /\ context' = context)]_vars

\* Phase 2 of one call overlaps phase 1 of another call on the same instance.
C3_Witness ==
    \E t, u \in Threads :
        /\ pc[t] = "build"
        /\ pc[u] = "parsing" /\ mutex = u
        /\ call[u].parser = call[t].parser

\* C4: whenever no call on an instance is inside its locked phase-1 section,
\* the instance's bound context is None.
C4_ContextUnsetOutsidePhase1 ==
    \A p \in Parsers :
        (\A t \in Threads : ~(InPhase1(t) /\ call[t].parser = p))
            => context[p] = None

\* C10: a call that is outside the locked section does not hold the lock, and
\* every call that waits for the lock ends, returning an AST or raising.
C10_LockReleasedAndCallsEnd ==
    /\ [](\A t \in Threads : ~InPhase1(t) => mutex # t)
    /\ \A t \in Threads : (pc[t] = "lock") ~> (pc[t] \in {"returned", "raised"})

\* A call waits for the lock while the call holding it is about to fail.
C10_Witness ==
    \E t, u \in Threads :
        /\ pc[t] = "raised" /\ mutex = u
        /\ pc[u] = "parsing"

\* ------------------------------------------------------------------ claims on the grammar

\* Phase 1 of the call has returned a tree.
Accepted == pc[Caller] \in {"build", "returned"}

IsAtom(tok) == tok.type \in {"SYMBOL", "FLOAT"}

\* The deferred node of an operand token.
AtomNode(tok) ==
    IF tok.type = "SYMBOL"
    THEN DeferredAstNode("SymbolExpression",
            <<CtxArg(ThatContext), StrArg(tok.value)>>, {<<"scope", "None">>})
    ELSE DeferredAstNode("FloatExpression",
            <<CtxArg(ThatContext), FloatArg(literal_eval(tok.value))>>, {})

\* The node class and operation name of each binary operator, as the
\* grammar's productions and naming table state them.
StatedClass(v) ==
    CASE v \in {"*", "/", "//", "%", "**"} -> "ArithmeticExpression"
      [] v = "+" -> "AddExpression"
      [] v = "-" -> "SubtractExpression"
      [] v \in {"&", "|", "^"} -> "BitwiseExpression"
      [] v \in {"<<", ">>"} -> "BitwiseShiftExpression"
      [] v \in {"==", "!="} -> "ComparisonExpression"
      [] v \in {">", ">=", "<", "<="} -> "ArithmeticComparisonExpression"
      [] v \in {"=~", "=~~", "!~", "!~~"} -> "FuzzyComparisonExpression"
      [] v \in {"and", "or"} -> "LogicExpression"

StatedName(v) ==
    CASE v = "+" -> "ADD" [] v = "-" -> "SUB" [] v = "*" -> "MUL"
      [] v = "**" -> "POW" [] v = "/" -> "TDIV" [] v = "//" -> "FDIV"
      [] v = "%" -> "MOD" [] v = "&" -> "BWAND" [] v = "|" -> "BWOR"
      [] v = "^" -> "BWXOR" [] v = "<<" -> "BWLSH" [] v = ">>" -> "BWRSH"
      [] v = "==" -> "EQ" [] v = "!=" -> "NE" [] v = ">" -> "GT"
      [] v = ">=" -> "GE" [] v = "<" -> "LT" [] v = "<=" -> "LE"
      [] v = "=~" -> "EQ_FZM" [] v = "=~~" -> "EQ_FZS"
      [] v = "!~" -> "NE_FZM" [] v = "!~~" -> "NE_FZS"
      [] v = "and" -> "AND" [] v = "or" -> "OR"

\* The tree of left <op> right; membership puts the container first.
BinaryNode(v, left, right) ==
    IF v = "in"
    THEN DeferredAstNode("ContainsExpression",
            <<CtxArg(ThatContext), right, left>>, {})
    ELSE DeferredAstNode(StatedClass(v),
            <<CtxArg(ThatContext), StrArg(StatedName(v)), left, right>>, {})

NotNode(operand) ==
    DeferredAstNode("UnaryExpression",
        <<CtxArg(ThatContext), StrArg("NOT"), operand>>, {})

StatementNode(expression) ==
    DeferredAstNode("Statement", <<CtxArg(ThatContext), expression>>, {})

\* The comparison group of the precedence table.
ComparisonTexts ==
    {"==", "!=", ">", ">=", "<", "<=", "=~", "=~~", "!~", "!~~", "in"}

\* The binding power the precedence table states for each binary operator,
\* lowest first.
StatedGroup(v) ==
    CASE v = "or" -> 1 [] v = "and" -> 2
      [] v = "|" -> 4 [] v = "^" -> 5 [] v = "&" -> 6
      [] v \in ComparisonTexts -> 8
      [] v \in {"+", "-"} -> 9
      [] v \in {"<<", ">>"} -> 10
      [] v \in {"*", "/", "//", "%"} -> 11
      [] v = "**" -> 12

\* The text is x1 op1 x2 op2 x3 with two binary operator tokens.
IsBinaryChain ==
    /\ Len(src) = 5
    /\ IsAtom(src[1]) /\ IsAtom(src[3]) /\ IsAtom(src[5])
    /\ src[2].value \in BinaryOpTexts
    /\ src[4].value \in BinaryOpTexts

IsComparisonChain ==
    /\ IsBinaryChain
    /\ src[2].value \in ComparisonTexts
    /\ src[4].value \in ComparisonTexts

\* C6: for a op1 b op2 c with both operators of the comparison group, the
\* parser has an error entry where op2 is the lookahead: op2 is never
\* shifted, no tree is returned and the call raises.
C6_ComparisonsNonAssociative ==
    IsComparisonChain =>
        /\ pos <= 4
        /\ result = NoResult
        /\ pc[Caller] \in {"parsing", "raised"}
        /\ (pc[Caller] = "parsing" /\ pos = 4 /\ Len(symstack) = 3
                /\ TypeAt(symstack, 1) = "expression")
            => ParserAction(symstack, Lookahead).kind = "error"

\* A chained comparison has raised a syntax error.
C6_Witness ==
    /\ IsComparisonChain
    /\ pc[Caller] = "raised"
    /\ src[2].value = "<" /\ src[4].value = "<"

TighterThanIn == {v \in BinaryOpTexts : StatedGroup(v) > StatedGroup("in")}

\* C8: "not a in b" and "a not in b" both return NOT wrapping a containment
\* node whose container is b and whose member is a, for a an operand or two
\* operands joined by an operator that binds tighter than "in".
C8_NotInSameAsNegatedIn ==
    Accepted =>
        /\ (Len(src) = 4 /\ src[1].type = "NOT" /\ IsAtom(src[2])
                /\ src[3].type = "IN" /\ IsAtom(src[4]))
            => result = StatementNode(NotNode(
                    BinaryNode("in", AtomNode(src[2]), AtomNode(src[4]))))
        /\ (Len(src) = 4 /\ IsAtom(src[1]) /\ src[2].type = "NOT"
                /\ src[3].type = "IN" /\ IsAtom(src[4]))
            => result = StatementNode(NotNode(
                    BinaryNode("in", AtomNode(src[1]), AtomNode(src[4]))))
        /\ (Len(src) = 6 /\ src[1].type = "NOT" /\ IsAtom(src[2])
                /\ src[3].value \in TighterThanIn /\ IsAtom(src[4])
                /\ src[5].type = "IN" /\ IsAtom(src[6]))
            => result = StatementNode(NotNode(
                    BinaryNode("in",
                        BinaryNode(src[3].value, AtomNode(src[2]), AtomNode(src[4])),
                        AtomNode(src[6]))))
        /\ (Len(src) = 6 /\ IsAtom(src[1]) /\ src[2].value \in TighterThanIn
                /\ IsAtom(src[3]) /\ src[4].type = "NOT"
                /\ src[5].type = "IN" /\ IsAtom(src[6]))
            => result = StatementNode(NotNode(
                    BinaryNode("in",
                        BinaryNode(src[2].value, AtomNode(src[1]), AtomNode(src[3])),
                        AtomNode(src[6]))))

\* "a not in b" has been parsed.
C8_Witness ==
    /\ Accepted
    /\ Len(src) = 4 /\ src[2].type = "NOT" /\ src[3].type = "IN"
    /\ result.args[2].cls = "UnaryExpression"

\* The nodes of the returned tree that a bracket production built.
BracketNodes ==
    {n \in {NodeAt(result, q) : q \in PathsOf(result)} :
        n.cls \in {"GetItemExpression", "GetSliceExpression", "ArrayExpression"}}

\* The opening-bracket tokens of the text.
BracketTokens == {src[i].value : i \in {j \in 1..Len(src) : src[j].type = "LBRACKET"}}

\* The same text with every '&[' written '['.
PlainForm(text) ==
    [i \in 1..Len(text) |->
        IF text[i].type = "LBRACKET" THEN Tok("LBRACKET", "[") ELSE text[i]]

\* The same tree with every safe flag false.
RECURSIVE WithoutSafe(_)
WithoutSafe(x) ==
    CASE x.k = "node" ->
            [x EXCEPT !.args = [i \in 1..Len(x.args) |-> WithoutSafe(x.args[i])],
                      !.kwargs = {IF kv[1] = "safe" THEN <<"safe", "False">> ELSE kv :
                                    kv \in x.kwargs}]
      [] x.k = "tuple" ->
            [x EXCEPT !.items = [i \in 1..Len(x.items) |-> WithoutSafe(x.items[i])]]
      [] OTHER -> x

\* C9 as claimed: whichever node the bracket production built, index, slice
\* or array literal, has safe = True exactly when the bracket token was '&['.
C9_SafeFlagInEveryBracketNode ==
    (Accepted /\ BracketTokens # {}) =>
        \A n \in BracketNodes :
            (<<"safe", "True">> \in n.kwargs) <=> (BracketTokens = {"&["})

\* C9 amended: an index or a slice node has the single keyword safe, True
\* exactly when the bracket token was '&['; an array literal node has no
\* keyword whichever the token; and the text parses exactly when its plain
\* form does, to the plain form's tree but for the safe flags.
C9_SafeFlagInIndexAndSlice ==
    (BracketTokens # {} /\ pc[Caller] \in {"build", "returned", "raised"}) =>
        /\ Accepted =>
            \A n \in BracketNodes :
                IF n.cls = "ArrayExpression" THEN n.kwargs = {}
                ELSE n.kwargs = {<<"safe", PyBool(BracketTokens = {"&["})>>}
        /\ LET plain == RunParser(<<>>, PlainForm(src), 1, ThatContext)
           IN  IF Accepted THEN WithoutSafe(result) = plain
               ELSE plain = NoResult

\* a&[b] has been parsed into a safe index node.
C9_Witness ==
    /\ Accepted
    /\ BracketTokens = {"&["}
    /\ \E n \in BracketNodes :
        n.cls = "GetItemExpression" /\ n.kwargs = {<<"safe", "True">>}

\* ------------------------------------------------------------------ claims on phase 2

\* The deferred nodes directly under the node at path.
ChildPaths(path) ==
    {path \o <<k>> : k \in 1..Len(ChildrenOf(NodeAt(result, path).args))}

\* The places of the log where the event ev of the node at path stands.
Events(ev, path) == {i \in 1..Len(log) : log[i].ev = ev /\ log[i].path = path}

====
